---- MODULE Spec2Model ----
(***************************************************************************)
(* A model of the Huffman codec of src/src/huffman.c: the bit buffer       *)
(* primitives, the frequency analysis, the tree builder, the encoding and  *)
(* decoding tables and the container codec, with the driver loop of        *)
(* src/src/main.c (encode, decode, compare) around them.                   *)
(*                                                                         *)
(* Conventions.  A C byte buffer is a sequence of numbers in 0..255; the   *)
(* C index i is the sequence index i + 1.  Unsigned C integers are         *)
(* naturals reduced modulo 2^width wherever the code stores them in a      *)
(* narrower type.  Allocations are assumed to succeed (MEM_ERROR is never  *)
(* returned).                                                              *)
(***************************************************************************)
EXTENDS Integers, Sequences, FiniteSets, Bags

(* ----------------------------- constants ------------------------------ *)

EXIT_SUCCESS == 0
MEM_ERROR == -1
INPUT_ERROR == -2
LENGTH_ERROR == -3

HEADER_BASE_SIZE == 6
MAX_CODE_LEN == 16
MAX_INPUT_SET_SIZE == 256
ENCODING_TABLE_LENGTH == 256

\* The outcome of a call that dereferences a null pointer: the signal that
\* ends the process (never a return value).
SIGSEGV == 11

\* The value of a pointer that points at no buffer.
NULL == <<>>

(* ------------------------- bounds of the model ------------------------ *)

\* The short inputs are all byte strings of length 0..MaxLen over Alphabet.
MaxLen == 3

\* qsort's unspecified order among equal elements is one of MaxTie + 1 rules.
MaxTie == 5

Alphabet == {0, 1, 97}

(* --------------------------- bit arithmetic --------------------------- *)

Pow2(n) == 2 ^ n

Min(a, b) == IF a < b THEN a ELSE b

Max(a, b) == IF a > b THEN a ELSE b

\* x >> n
Shr(x, n) == x \div Pow2(n)

\* The low n bits of x: x & ((1 << n) - 1), or a store into an n-bit type.
Low(x, n) == x % Pow2(n)

\* Bit n of x.
Bit(x, n) == Shr(x, n) % 2

RECURSIVE BitOr(_, _)
\* a | b
BitOr(a, b) ==
    IF a = 0 THEN b
    ELSE IF b = 0 THEN a
    ELSE Max(a % 2, b % 2) + 2 * BitOr(a \div 2, b \div 2)

\* x & ~(1 << n)
ClearBit(x, n) == x - Bit(x, n) * Pow2(n)

\* x | (1 << n)
SetBit(x, n) == x + (1 - Bit(x, n)) * Pow2(n)

Symbols == 0 .. (MAX_INPUT_SET_SIZE - 1)

\* Always TRUE.  TLC evaluates an operator's argument only when the operator
\* uses it; ForLoop tests Evaluated on the state after each part of a loop so
\* that the parts are evaluated in the order of the loop, one after another.
Evaluated(v) == <<v>> # <<>>

\* F(x) with x evaluated first, and once: a statement that uses what the
\* statement before it has computed.
Then(x, F(_)) == CHOOSE r \in {F(v) : v \in {x}} : TRUE

RECURSIVE ForLoop(_, _, _, _)
\* for(i = lo; i <= hi; i++) st = Body(st, i): the state after the loop, from
\* the state st before it.  The range is cut into eight parts that run in
\* order, each from the state the part before it has left.
ForLoop(Body(_, _), st, lo, hi) ==
    IF lo > hi THEN st
    ELSE IF lo = hi THEN Body(st, lo)
    ELSE LET n  == (hi - lo + 8) \div 8
             s1 == ForLoop(Body, st, lo, lo + n - 1)
             s2 == ForLoop(Body, s1, lo + n, Min(lo + 2 * n - 1, hi))
             s3 == ForLoop(Body, s2, lo + 2 * n, Min(lo + 3 * n - 1, hi))
             s4 == ForLoop(Body, s3, lo + 3 * n, Min(lo + 4 * n - 1, hi))
             s5 == ForLoop(Body, s4, lo + 4 * n, Min(lo + 5 * n - 1, hi))
             s6 == ForLoop(Body, s5, lo + 5 * n, Min(lo + 6 * n - 1, hi))
             s7 == ForLoop(Body, s6, lo + 6 * n, Min(lo + 7 * n - 1, hi))
         IN  IF /\ Evaluated(st) /\ Evaluated(s1) /\ Evaluated(s2)
                /\ Evaluated(s3) /\ Evaluated(s4) /\ Evaluated(s5)
                /\ Evaluated(s6) /\ Evaluated(s7)
             THEN ForLoop(Body, s7, lo + 7 * n, hi)
             ELSE st

(* ----------------------------- tree nodes ----------------------------- *)

\* A byte node: child[0] = child[1] = NULL, c the byte.
create_byte_node(c, freq) ==
    [freq |-> freq, child |-> NULL, c |-> c]

\* An internal node owning its two children.
create_internal_node(first_child, second_child) ==
    [freq |-> first_child.freq + second_child.freq,
     child |-> <<first_child, second_child>>,
     c |-> 0]

\* The test `node->child[1]` of the code: is the node an internal node?
HasChild(node) == node.child # NULL

\* A faulty node_compare: the weights alone, without the rule that puts a
\* byte node before an internal node of the same weight.
node_compare_by_weight(first, second) == first.freq - second.freq

\* A weight of at most 32 bits as its two 16-bit halves <<high, low>>.
Halves(x) == <<Shr(x, 16), Low(x, 16)>>

\* The int that `return first->freq - second->freq` yields for the weights
\* a and b, given in halves: the size_t difference wraps, and the
\* conversion to int keeps its low 32 bits, read as two's complement.
DifferenceAsInt(a, b) ==
    LET borrow == IF a[2] < b[2] THEN 1 ELSE 0
        low    == Low(a[2] - b[2], 16)
        high   == Low(a[1] - b[1] - borrow, 16)
    IN  IF high >= Pow2(15)
        THEN (high - Pow2(16)) * Pow2(16) + low
        ELSE high * Pow2(16) + low

\* node_compare on two roots given by their weights, in halves, and by
\* whether each is an internal node.
CompareRoots(a, b, first_internal, second_internal) ==
    IF a = b
    THEN IF first_internal /\ ~second_internal THEN 1
         ELSE IF ~first_internal /\ second_internal THEN -1
         ELSE 0
    ELSE DifferenceAsInt(a, b)

\* The int node_compare returns for two nodes of the tree builder.
node_compare(first, second) ==
    CompareRoots(Halves(first.freq), Halves(second.freq),
                 HasChild(first), HasChild(second))

(* -------------------------------- qsort ------------------------------- *)

\* Is list[j] before list[i] in the stable order by node_compare?
Precedes(list, j, i) ==
    \/ node_compare(list[j], list[i]) < 0
    \/ node_compare(list[j], list[i]) = 0 /\ j < i

\* The list in an order consistent with node_compare in which elements that
\* compare equal keep the order they have in the list.
StableSort(list) ==
    [k \in 1 .. Len(list) |->
        list[CHOOSE i \in 1 .. Len(list) :
                 Cardinality({j \in 1 .. Len(list) : Precedes(list, j, i)}) = k - 1]]

RemoveAt(s, i) == SubSeq(s, 1, i - 1) \o SubSeq(s, i + 1, Len(s))

RECURSIVE PermuteRun(_, _)
\* A permutation of a run of elements that compare equal, numbered by k:
\* k = 0 keeps the order, and k ranging over 0 .. n! - 1 gives all n!.
PermuteRun(run, k) ==
    IF Len(run) <= 1 THEN run
    ELSE LET i == (k % Len(run)) + 1
         IN  <<run[i]>> \o PermuteRun(RemoveAt(run, i), k \div Len(run))

\* The indices of the run of elements of the sorted list that compare equal
\* to sorted[k].
Run(sorted, k) == {i \in 1 .. Len(sorted) : node_compare(sorted[i], sorted[k]) = 0}

\* The sorted list with every run of equal elements permuted by rule `tie`.
PermuteRuns(sorted, tie) ==
    [k \in 1 .. Len(sorted) |->
        LET first == CHOOSE i \in Run(sorted, k) : \A j \in Run(sorted, k) : i <= j
            last  == CHOOSE i \in Run(sorted, k) : \A j \in Run(sorted, k) : i >= j
        IN  PermuteRun(SubSeq(sorted, first, last), tie)[k - first + 1]]

\* qsort(base, n, size, node_compare): the elements in an order consistent
\* with node_compare.  The order of elements that compare equal is not
\* specified by the C library; a given library resolves it the same way for
\* the same array, which `tie` stands for.
qsort(list, tie) ==
    Then(<<>> \o StableSort(list), LAMBDA sorted : <<>> \o PermuteRuns(sorted, tie))

(* ------------------------------ the tree ------------------------------ *)

\* The byte nodes of the symbols that occur, in symbol order: node_list
\* after the first loop of create_huffman_tree.
ByteNodes(freq) ==
    LET Body(node_list, i) ==
            IF freq[i] # 0 THEN Append(node_list, create_byte_node(i, freq[i]))
            ELSE node_list
    IN  ForLoop(Body, <<>>, 0, MAX_INPUT_SET_SIZE - 1)

\* The loop of create_huffman_tree, which runs node_count - 1 times: sort
\* the roots, replace the first two by an internal node that takes their
\* place at the head of the remaining list.
MergeLoop(node_list, tie) ==
    LET Body(roots, i) ==
            Then(qsort(roots, tie), LAMBDA sorted :
                <<create_internal_node(sorted[1], sorted[2])>>
                    \o SubSeq(sorted, 3, Len(sorted)))
    IN  ForLoop(Body, node_list, 1, Len(node_list) - 1)

\* *head_node after create_huffman_tree: the one root left, or NULL when no
\* symbol occurs.
create_huffman_tree(freq, tie) ==
    Then(ByteNodes(freq), LAMBDA node_list :
    Then(MergeLoop(node_list, tie), LAMBDA roots :
        IF roots = <<>> THEN NULL ELSE roots[1]))

(* ------------------------- the encoding table ------------------------- *)

\* An entry of the encoding table (code, length) or of the decoding table
\* (symbol, length).
NoCode == [code |-> 0, length |-> 0]

RECURSIVE create_encoding_table(_, _, _, _)
\* The traversal that writes one (code, length) for every byte node below
\* `node`.  `value` is the function-static accumulator; the result carries
\* the table and the accumulator as the call leaves them.
create_encoding_table(node, encoding_table, bits_set, value) ==
    IF HasChild(node)
    THEN LET left == create_encoding_table(node.child[1], encoding_table,
                         Low(bits_set + 1, 8), ClearBit(value, bits_set))
         IN  IF Evaluated(left)
             THEN create_encoding_table(node.child[2], left.encoding_table,
                          Low(bits_set + 1, 8), SetBit(left.value, bits_set))
             ELSE left
    ELSE [encoding_table |->
              [encoding_table EXCEPT ![node.c] =
                  [code |-> Low(Low(value, bits_set), 16), length |-> bits_set]],
          value |-> value]

(* ---------------------------- write_k_bits ---------------------------- *)

\* A store into buffer[i]; the buffer is written only inside its bounds.
Store(buffer, i, byte) ==
    IF i < Len(buffer) THEN [buffer EXCEPT ![i + 1] = byte] ELSE buffer

\* A faulty write_k_bits: the first byte is overwritten, so the bits written
\* to it before are lost.
write_k_bits_clearing(w, value16, bits) ==
    LET value == Low(value16, 16)
        byte_pos == Shr(w.bit_pos, 3)
        bit_offset == w.bit_pos % 8
    IN  [buffer |-> [w.buffer EXCEPT ![byte_pos + 1] = Low(value * Pow2(bit_offset), 8)],
         bit_pos |-> w.bit_pos + bits]

\* write_k_bits(buffer, value, &bit_pos, bits) on w = [buffer, bit_pos].
\* `buffer[byte_pos] &= ~0 >> bits_to_first_byte` keeps every bit of the
\* byte (~0 is the int -1, and so is -1 >> n), so the first byte is or-ed.
write_k_bits(w, value16, bits) ==
    LET value == Low(value16, 16)
        byte_pos == Shr(w.bit_pos, 3)
        bit_offset == w.bit_pos % 8
        bits_to_first_byte == 8 - bit_offset
        extra_bytes_needed == Shr(bit_offset + bits, 3) - Shr(bit_offset, 3)
        b0 == Store(w.buffer, byte_pos,
                    BitOr(w.buffer[byte_pos + 1], Low(value * Pow2(bit_offset), 8)))
        value1 == Shr(value, bits_to_first_byte)
        b1 == IF extra_bytes_needed > 0
              THEN Store(b0, byte_pos + 1, Low(value1, 8)) ELSE b0
        value2 == Shr(value1, 8)
        b2 == IF extra_bytes_needed > 1
              THEN Store(b1, byte_pos + 2, Low(value2, 8)) ELSE b1
    IN  [buffer |-> b2, bit_pos |-> w.bit_pos + bits]

(* --------------------------- huffman_encode --------------------------- *)

\* The tally loop over the bytes of the input, in order.  With `distinct`
\* the loop also counts a byte the first time it is seen (the branch for
\* inputs of at most 256 bytes).
CountLoop(st, input, decompressed_length, distinct) ==
    LET Body(s, i) ==
            [freq |-> [s.freq EXCEPT ![input[i + 1]] = @ + 1],
             encoded_bytes |-> IF distinct /\ s.freq[input[i + 1]] = 0
                               THEN s.encoded_bytes + 1 ELSE s.encoded_bytes]
    IN  ForLoop(Body, st, 0, decompressed_length - 1)

\* A faulty frequency analysis: the count of distinct bytes starts at 1.
FrequencyAnalysisFromOne(input, decompressed_length) ==
    CountLoop([freq |-> [i \in Symbols |-> 0], encoded_bytes |-> 1],
              input, decompressed_length, TRUE)

\* Frequency analysis: freq[] and the number of distinct bytes.
FrequencyAnalysis(input, decompressed_length) ==
    LET zero == [freq |-> [i \in Symbols |-> 0], encoded_bytes |-> 0]
    IN  IF decompressed_length > MAX_INPUT_SET_SIZE
        THEN Then(CountLoop(zero, input, decompressed_length, FALSE), LAMBDA st :
                 [freq |-> st.freq,
                  encoded_bytes |-> Cardinality({i \in Symbols : st.freq[i] # 0})])
        ELSE CountLoop(zero, input, decompressed_length, TRUE)

\* The loop run when one distinct byte occurs, over i = 0 .. 255 in order:
\* an entry that is non-zero when the loop reaches it bumps its neighbour.
AdjustLoop(freq) ==
    LET Body(f, i) ==
            IF f[i] # 0
            THEN [f EXCEPT ![IF i > 0 THEN i - 1 ELSE i + 1] = @ + 1]
            ELSE f
    IN  ForLoop(Body, freq, 0, MAX_INPUT_SET_SIZE - 1)

\* header_bit_length (uint16_t) after the loop over the encoding table.
HeaderBitLength(encoding_table) ==
    LET Body(header_bit_length, i) ==
            IF encoding_table[i].length # 0
            THEN Low(header_bit_length + 16 + encoding_table[i].length, 16)
            ELSE header_bit_length
    IN  ForLoop(Body, 0, 0, ENCODING_TABLE_LENGTH - 1)

\* encoded_bit_length: the sum of the code lengths of the bytes of the input.
EncodedBitLength(encoding_table, input, decompressed_length) ==
    LET Body(encoded_bit_length, i) ==
            encoded_bit_length + encoding_table[input[i + 1]].length
    IN  ForLoop(Body, 0, 0, decompressed_length - 1)

\* The n low bytes of x, least significant first (a little-endian store).
RECURSIVE LittleEndian(_, _)
LittleEndian(x, n) ==
    IF n = 0 THEN <<>> ELSE <<x % 256>> \o LittleEndian(x \div 256, n - 1)

\* calloc(total_length, 1) followed by the two header stores.
WriteHeader(total_length, decompressed_length, header_bit_length) ==
    LittleEndian(decompressed_length, 4) \o LittleEndian(header_bit_length, 2)
        \o [k \in 1 .. (total_length - HEADER_BASE_SIZE) |-> 0]

\* The codebook loop over the symbols, in order.
WriteCodebook(w, encoding_table) ==
    LET Body(s, i) ==
            IF encoding_table[i].length # 0
            THEN write_k_bits(
                     write_k_bits(write_k_bits(s, i, 8), encoding_table[i].length, 8),
                     encoding_table[i].code, encoding_table[i].length)
            ELSE s
    IN  ForLoop(Body, w, 0, ENCODING_TABLE_LENGTH - 1)

\* The payload loop over the bytes of the input, in order.
WritePayload(w, encoding_table, input, decompressed_length) ==
    LET Body(s, i) ==
            write_k_bits(s, encoding_table[input[i + 1]].code,
                         encoding_table[input[i + 1]].length)
    IN  ForLoop(Body, w, 0, decompressed_length - 1)

\* The frequency table handed to the tree builder: with one distinct byte
\* the adjustment loop runs first.
AdjustedFrequencies(fa) ==
    IF fa.encoded_bytes = 1 THEN AdjustLoop(fa.freq) ELSE fa.freq

\* The rest of huffman_encode once the encoding table is made: the two bit
\* lengths, the size, and the buffer with header, codebook and payload.
EncodeWithTable(input, decompressed_length, encoding_table) ==
    Then(HeaderBitLength(encoding_table), LAMBDA header_bit_length :
    Then(EncodedBitLength(encoding_table, input, decompressed_length),
         LAMBDA encoded_bit_length :
    Then(HEADER_BASE_SIZE + Shr(encoded_bit_length + header_bit_length + 7, 3) + 1,
         LAMBDA total_length :
    Then([buffer |-> WriteHeader(total_length, decompressed_length,
                                 header_bit_length),
          bit_pos |-> HEADER_BASE_SIZE * 8], LAMBDA w0 :
    Then(WriteCodebook(w0, encoding_table), LAMBDA w1 :
    Then(WritePayload(w1, encoding_table, input, decompressed_length), LAMBDA w2 :
        [header_bit_length |-> header_bit_length,
         encoded_bit_length |-> encoded_bit_length,
         compressed_length |-> total_length,
         output |-> w2.buffer]))))))

\* What huffman_encode leaves when it returns before it has allocated.
NothingEncoded(ret, output0, compressed_length0, value0) ==
    [ret |-> ret, output |-> output0, compressed_length |-> compressed_length0,
     value |-> value0, encoding_table |-> [i \in Symbols |-> NoCode],
     header_bit_length |-> 0, encoded_bit_length |-> 0]

\* huffman_encode(input, &output, decompressed_length, &compressed_length)
\* called with *output = output0, *compressed_length = compressed_length0,
\* the static accumulator at value0.  The result is the return value, what
\* the two out-parameters and the accumulator hold on return, and the
\* locals of the call.  A null *head_node is dereferenced by
\* create_encoding_table.
huffman_encode(input, output0, decompressed_length, compressed_length0, value0, tie) ==
    Then(FrequencyAnalysis(input, decompressed_length), LAMBDA fa :
    IF fa.encoded_bytes = 0
    THEN NothingEncoded(INPUT_ERROR, output0, compressed_length0, value0)
    ELSE
    Then(AdjustedFrequencies(fa), LAMBDA freq :
    Then(create_huffman_tree(freq, tie), LAMBDA head_node :
    IF head_node = NULL
    THEN NothingEncoded(SIGSEGV, output0, compressed_length0, value0)
    ELSE
    Then(create_encoding_table(head_node, [i \in Symbols |-> NoCode], 0, value0),
         LAMBDA et :
    Then(EncodeWithTable(input, decompressed_length, et.encoding_table),
         LAMBDA written :
        [encoding_table |-> et.encoding_table,
         header_bit_length |-> written.header_bit_length,
         encoded_bit_length |-> written.encoded_bit_length,
         compressed_length |-> written.compressed_length,
         output |-> written.output,
         value |-> et.value,
         ret |-> EXIT_SUCCESS])))))

(* --------------------------- huffman_decode --------------------------- *)

\* input[i] as the code reads it.  A read at or beyond the end of the
\* buffer is outside the object: the byte it yields is whatever lies there,
\* `junk`.
ReadByte(input, i, junk) == IF i < Len(input) THEN input[i + 1] ELSE junk

\* peek_buffer(input, bit_pos): three successive bytes concatenated, shifted
\* to the bit offset and returned as uint16_t.
peek_buffer(input, bit_pos, junk) ==
    LET byte_pos == Shr(bit_pos, 3)
        concat == ReadByte(input, byte_pos + 2, junk) * Pow2(16)
                  + ReadByte(input, byte_pos + 1, junk) * Pow2(8)
                  + ReadByte(input, byte_pos, junk)
    IN  Low(Shr(concat, bit_pos % 8), 16)

\* The highest byte index a peek_buffer at bit_pos reads.
PeekTop(bit_pos) == Shr(bit_pos, 3) + 2

\* The field of `bytes` bytes stored little-endian at input[at].
RECURSIVE ReadLittleEndian(_, _, _, _)
ReadLittleEndian(input, at, bytes, junk) ==
    IF bytes = 0 THEN 0
    ELSE ReadByte(input, at, junk)
         + 256 * ReadLittleEndian(input, at + 1, bytes - 1, junk)

\* decoding_table[buffer].  The table starts all (0, 0); the code fills, for
\* each codebook entry in turn, every index whose low `length` bits are the
\* entry's code.  The table is kept as the list of the entries read: an
\* index holds the last entry read that covers it.  An entry also keeps
\* `field`, the 8-bit length field as it stands in the container.
DecodingTable(entries, buffer) ==
    LET hits == {k \in 1 .. Len(entries) :
                    Low(buffer, entries[k].length) = entries[k].code}
    IN  IF hits = {} THEN [symbol |-> 0, length |-> 0, code |-> 0]
        ELSE entries[CHOOSE k \in hits : \A j \in hits : j <= k]

\* A faulty EncodedLength: the mask without the step that reads 0 as 16.
EncodedLengthMasked(field) == field % 16

\* The length the decoder takes from the 8-bit length field.
EncodedLength(field) == IF field % 16 = 0 THEN 16 ELSE field % 16

\* The while loop that reads the codebook: d = [bit_pos, entries, peek_max].
\* A pass moves bit_pos forward by more than 16 bits, so the loop has ended
\* within header_bit_length >> 4 passes; a pass after the end changes nothing.
BuildLoop(d, input, header_bit_length, junk) ==
    LET Body(s, pass) ==
            IF ~(s.bit_pos < header_bit_length) THEN s
            ELSE LET decoded_byte == Low(peek_buffer(input, s.bit_pos, junk), 8)
                     pos1 == s.bit_pos + 8
                     encoded_length == EncodedLength(peek_buffer(input, pos1, junk))
                     pos2 == pos1 + 8
                     encoded_byte ==
                         Low(peek_buffer(input, pos2, junk), encoded_length)
                 IN  [bit_pos |-> pos2 + encoded_length,
                      entries |-> Append(s.entries,
                          [symbol |-> decoded_byte, length |-> encoded_length,
                           code |-> encoded_byte,
                           field |-> Low(peek_buffer(input, pos1, junk), 8)]),
                      peek_max |-> Max(s.peek_max, PeekTop(pos2))]
    IN  ForLoop(Body, d, 1, Shr(header_bit_length, 4))

\* The loop that decodes the bytes of the output, in order:
\* d = [bit_pos, output, peek_max].
DecodeLoop(d, input, entries, decompressed_length, junk) ==
    LET Body(s, byte_count) ==
            LET buffer == peek_buffer(input, s.bit_pos, junk)
                hit == DecodingTable(entries, buffer)
            IN  [bit_pos |-> s.bit_pos + hit.length,
                 output |-> Store(s.output, byte_count, hit.symbol),
                 peek_max |-> Max(s.peek_max, PeekTop(s.bit_pos))]
    IN  ForLoop(Body, d, 0, decompressed_length - 1)

\* huffman_decode(input, &output): the return value, *output (the
\* decompressed_length + 1 bytes allocated), the codebook entries read and
\* the highest index of input[] the call has read.
huffman_decode(input, junk) ==
    Then(ReadLittleEndian(input, 0, 4, junk), LAMBDA decompressed_length :
    Then(Low(ReadLittleEndian(input, 4, 2, junk) + HEADER_BASE_SIZE * 8, 16),
         LAMBDA header_bit_length :
    Then(BuildLoop([bit_pos |-> HEADER_BASE_SIZE * 8, entries |-> <<>>,
                    peek_max |-> HEADER_BASE_SIZE - 1],
                   input, header_bit_length, junk), LAMBDA built :
    Then(DecodeLoop([bit_pos |-> built.bit_pos,
                     output |-> <<>> \o [k \in 1 .. decompressed_length + 1 |-> 0],
                     peek_max |-> built.peek_max],
                    input, built.entries, decompressed_length, junk), LAMBDA done :
        [ret |-> EXIT_SUCCESS, output |-> done.output,
         decompressed_length |-> decompressed_length,
         entries |-> built.entries, peek_max |-> done.peek_max]))))

(* -------------------------------- main.c ------------------------------ *)

\* compare(first, second, len): the sign of the first difference in the
\* first len bytes, 0 when there is none.
compare(first, second, len) ==
    LET differ == {i \in 1 .. len : first[i] # second[i]}
    IN  IF differ = {} THEN 0
        ELSE LET i == CHOOSE d \in differ : \A e \in differ : d <= e
             IN  IF first[i] < second[i] THEN -1 ELSE 1

(* ------------------------------- inputs ------------------------------- *)

\* The Fibonacci numbers F(1) .. F(18).
Fibonacci ==
    <<1, 1, 2, 3, 5, 8, 13, 21, 34, 55, 89, 144, 233, 377, 610, 987, 1597, 2584>>

RECURSIVE DeepInput(_)
\* The input in which symbol s of 0 .. leaves - 1 occurs F(s + 1) times, in
\* symbol order: the weights that make the tree a chain of depth leaves - 1.
DeepInput(leaves) ==
    IF leaves = 0 THEN <<>>
    ELSE DeepInput(leaves - 1) \o [i \in 1 .. Fibonacci[leaves] |-> leaves - 1]

\* "abracadabra"
Abracadabra == <<97, 98, 114, 97, 99, 97, 100, 97, 98, 114, 97>>

\* Weights 1, 1, 2, 2, 2, 3: two internal roots of weight 4 tie.
TiedRoots == <<1, 2, 3, 3, 4, 4, 5, 5, 6, 6, 6>>

\* Every byte string of length 0 .. MaxLen over Alphabet.
ShortInputs == UNION {[1 .. n -> Alphabet] : n \in 0 .. MaxLen}

\* Inputs whose tree has a leaf at depth 16 and at depth 17.
DeepInputs == {DeepInput(17), DeepInput(18)}

\* What a read outside a buffer may yield.
JunkBytes == {0, 255}

(* ------------------------------ the state ----------------------------- *)

VARIABLES
    pc,                 \* where the caller is
    test_string,        \* the input of the test
    qsort_tie,          \* how the C library's qsort orders equal elements
    value,              \* the static accumulator of create_encoding_table
    encoded,            \* *output of huffman_encode (NULL: nothing allocated)
    compressed_length,  \* *compressed_length
    enc_ret,            \* what huffman_encode returned
    enc,                \* the locals of the huffman_encode call
    decoded,            \* *output of huffman_decode
    dec,                \* return value and reads of the huffman_decode call
    failures,           \* main.c's count of failed comparisons
    reencoded,          \* *output of the second huffman_encode
    reenc,              \* return value and locals of the second huffman_encode
    trees,              \* the trees built from one frequency table
    thread,             \* the two concurrent huffman_encode calls
    compared            \* two roots and what node_compare returned for them

vars == <<pc, test_string, qsort_tie, value, encoded, compressed_length,
          enc_ret, enc, decoded, dec, failures, reencoded, reenc, trees, thread,
          compared>>

NoCall == [ret |-> "none"]

\* The state before anything has run.
Fresh ==
    /\ value = 0
    /\ compressed_length = 0
    /\ enc_ret = "none"
    /\ enc = NoCall
    /\ decoded = NULL
    /\ dec = NoCall
    /\ failures = 0
    /\ reencoded = NULL
    /\ reenc = NoCall
    /\ trees = NoCall
    /\ thread = NoCall
    /\ compared = NoCall

\* A caller about to encode one input.  The deep inputs have one pair of
\* equal roots only and run under the first tie rule.
Init ==
    /\ pc = "encode"
    /\ \/ /\ test_string \in ShortInputs \cup {Abracadabra, TiedRoots}
          /\ qsort_tie \in 0 .. MaxTie
       \/ /\ test_string \in DeepInputs
          /\ qsort_tie = 0
    /\ encoded = NULL
    /\ Fresh

\* main.c: huffman_encode on the test string.
Encode ==
    /\ pc = "encode"
    /\ \E r \in {huffman_encode(test_string, encoded, Len(test_string),
                               compressed_length, value, qsort_tie)} :
           /\ enc_ret' = r.ret
           /\ enc' = [ret |-> r.ret, encoding_table |-> r.encoding_table,
                      header_bit_length |-> r.header_bit_length,
                      encoded_bit_length |-> r.encoded_bit_length]
           /\ encoded' = r.output
           /\ compressed_length' = r.compressed_length
           /\ value' = r.value
           /\ pc' = IF r.ret = EXIT_SUCCESS THEN "decode" ELSE "failed"
    /\ UNCHANGED <<test_string, qsort_tie, decoded, dec, failures, reencoded,
                   reenc, trees, thread, compared>>

\* main.c: huffman_decode on the container.
Decode ==
    /\ pc = "decode"
    /\ \E junk \in JunkBytes :
         \E r \in {huffman_decode(encoded, junk)} :
             /\ dec' = [ret |-> r.ret, entries |-> r.entries,
                        peek_max |-> r.peek_max,
                        decompressed_length |-> r.decompressed_length]
             /\ decoded' = r.output
    /\ pc' = "compare"
    /\ UNCHANGED <<test_string, qsort_tie, value, encoded, compressed_length,
                   enc_ret, enc, failures, reencoded, reenc, trees, thread,
                   compared>>

\* main.c: compare() of the test string and the decoded bytes.
Compare ==
    /\ pc = "compare"
    /\ failures' = IF compare(test_string, decoded, Len(test_string)) = 0
                   THEN failures ELSE failures + 1
    /\ pc' = "reencode"
    /\ UNCHANGED <<test_string, qsort_tie, value, encoded, compressed_length,
                   enc_ret, enc, decoded, dec, reencoded, reenc, trees, thread,
                   compared>>

\* A second huffman_encode in the same process, on the decoded bytes.
Reencode ==
    /\ pc = "reencode"
    /\ \E r \in {huffman_encode(decoded, reencoded, dec.decompressed_length,
                               0, value, qsort_tie)} :
           /\ reenc' = [ret |-> r.ret, encoding_table |-> r.encoding_table,
                        header_bit_length |-> r.header_bit_length,
                        compressed_length |-> r.compressed_length]
           /\ reencoded' = r.output
           /\ value' = r.value
    /\ pc' = "done"
    /\ UNCHANGED <<test_string, qsort_tie, encoded, compressed_length, enc_ret,
                   enc, decoded, dec, failures, trees, thread, compared>>

Next == Encode \/ Decode \/ Compare \/ Reencode

Spec == Init /\ [][Next]_vars

(* ------------------ huffman_decode on arbitrary buffers --------------- *)

\* The buffers of MalformedLength bytes: a decompressed length of at most
\* MaxCount, a codebook bit length among MalformedHeaderBits (65488 and
\* 65535 make header_bit_length wrap to 0 and 47), any bytes of JunkBytes
\* after the header.
MalformedLength == 9

MaxCount == 2

MalformedHeaderBits == {0, 1, 17, 24, 65488, 65535}

MalformedBuffers ==
    {LittleEndian(n, 4) \o LittleEndian(h, 2) \o body :
        n \in 0 .. MaxCount, h \in MalformedHeaderBits,
        body \in [1 .. MalformedLength - HEADER_BASE_SIZE -> JunkBytes]}

\* A caller about to decode a buffer that no huffman_encode has written.
InitMalformed ==
    /\ pc = "decode"
    /\ test_string = <<>>
    /\ qsort_tie = 0
    /\ encoded \in MalformedBuffers
    /\ Fresh

SpecMalformed == InitMalformed /\ [][Decode]_vars

(* ------------------ one frequency table, two sort orders -------------- *)

\* A caller about to build the tree of one input twice.
InitTree ==
    /\ pc = "tree"
    /\ test_string \in (ShortInputs \ {<<>>}) \cup {Abracadabra, TiedRoots}
    /\ qsort_tie \in 0 .. MaxTie
    /\ encoded = NULL
    /\ Fresh

\* create_huffman_tree on the frequency table of the input, once with the
\* qsort that keeps equal elements in place and once with the qsort that
\* orders them by rule qsort_tie.
BuildTrees ==
    /\ pc = "tree"
    /\ \E freq \in {AdjustedFrequencies(
                        FrequencyAnalysis(test_string, Len(test_string)))} :
           trees' = [ret |-> EXIT_SUCCESS,
                     in_place |-> create_huffman_tree(freq, 0),
                     by_rule |-> create_huffman_tree(freq, qsort_tie)]
    /\ pc' = "built"
    /\ UNCHANGED <<test_string, qsort_tie, value, encoded, compressed_length,
                   enc_ret, enc, decoded, dec, failures, reencoded, reenc, thread,
                   compared>>

SpecTree == InitTree /\ [][BuildTrees]_vars

(* ------------------------ inputs of one byte value -------------------- *)

MaxCopies == 3

LongRun == 257

\* n copies of byte value i.
Copies(i, n) == [k \in 1 .. n |-> i]

\* The inputs that hold one byte value: every value in short runs, and the
\* two ends of the range in a run that takes the branch of the frequency
\* analysis for inputs of more than 256 bytes.
SingleSymbolInputs ==
    {Copies(i, n) : i \in Symbols, n \in 1 .. MaxCopies}
        \cup {Copies(i, LongRun) : i \in {0, MAX_INPUT_SET_SIZE - 1}}

\* A caller about to encode an input of one byte value.
InitSingle ==
    /\ pc = "single"
    /\ test_string \in SingleSymbolInputs
    /\ qsort_tie = 0
    /\ encoded = NULL
    /\ Fresh

\* huffman_encode on the input; of the locals of the call, freq[] as the
\* tally loop left it (raw) and as create_huffman_tree received it (freq).
EncodeSingle ==
    /\ pc = "single"
    /\ \E fa \in {FrequencyAnalysis(test_string, Len(test_string))} :
       \E r \in {huffman_encode(test_string, encoded, Len(test_string),
                                compressed_length, value, qsort_tie)} :
           /\ enc_ret' = r.ret
           /\ encoded' = r.output
           /\ compressed_length' = r.compressed_length
           /\ value' = r.value
           /\ enc' = [ret |-> r.ret,
                      encoded_bytes |-> fa.encoded_bytes,
                      raw |-> fa.freq,
                      freq |-> AdjustedFrequencies(fa),
                      encoding_table |-> r.encoding_table]
    /\ pc' = "encoded"
    /\ UNCHANGED <<test_string, qsort_tie, decoded, dec, failures, reencoded,
                   reenc, trees, thread, compared>>

SpecSingle == InitSingle /\ [][EncodeSingle]_vars

(* --------------------- node_compare on wide weights ------------------- *)

\* The halves the weights are made of: the ends of the 16-bit range and
\* the two values around the sign bit of the int.
WeightHalves == {0, 1, Pow2(15) - 1, Pow2(15), Pow2(16) - 1}

\* a < b for two weights in halves.
Lighter(a, b) == a[1] < b[1] \/ (a[1] = b[1] /\ a[2] < b[2])

\* Whether two roots of weights a and b can stand in one root list: the
\* weights of the roots add up to the input length, a uint32_t.
InOneList(a, b) ==
    LET carry == IF a[2] + b[2] >= Pow2(16) THEN 1 ELSE 0
    IN  a[1] + b[1] + carry < Pow2(16)

\* The roots qsort may hand to node_compare: a byte node weighs at least
\* 1, an internal node at least 2.
Roots ==
    {[freq |-> w, internal |-> k] :
        w \in (WeightHalves \X WeightHalves) \ {<<0, 0>>}, k \in BOOLEAN}
        \ {[freq |-> <<0, 1>>, internal |-> TRUE]}

\* A caller about to have two roots compared.
InitCompare ==
    /\ pc = "roots"
    /\ test_string = <<>>
    /\ qsort_tie = 0
    /\ encoded = NULL
    /\ Fresh

\* qsort calls node_compare on two roots of the list.
CompareTwoRoots ==
    /\ pc = "roots"
    /\ \E first \in Roots, second \in Roots :
           /\ InOneList(first.freq, second.freq)
           /\ compared' = [ret |-> CompareRoots(first.freq, second.freq,
                                                first.internal, second.internal),
                           first |-> first, second |-> second]
    /\ pc' = "ranked"
    /\ UNCHANGED <<test_string, qsort_tie, value, encoded, compressed_length,
                   enc_ret, enc, decoded, dec, failures, reencoded, reenc,
                   trees, thread>>

SpecCompare == InitCompare /\ [][CompareTwoRoots]_vars

(* ------------------ two concurrent huffman_encode calls --------------- *)

Threads == {1, 2}

\* The inputs of the concurrent calls.
ThreadInputs == {<<97>>, <<97, 98>>, <<0, 1, 97>>}

\* A call of create_encoding_table that has not run yet.
Frame(node, bits_set) == [node |-> node, bits_set |-> bits_set, at |-> "enter"]

Top(t) == thread[t].stack[Len(thread[t].stack)]

\* The stack of thread t with its top frame replaced by `frames`.
Replaced(t, frames) ==
    SubSeq(thread[t].stack, 1, Len(thread[t].stack) - 1) \o frames

InTable(t) == thread[t].pc = "table" /\ thread[t].stack # <<>>

\* What the threads share with nothing.
caller_vars == <<pc, test_string, qsort_tie, encoded, compressed_length, enc_ret,
                 enc, decoded, dec, failures, reencoded, reenc, trees,
                 compared>>

\* Two threads, each about to call huffman_encode on its own input and
\* with its own output; the accumulator `value` is the one of the process.
InitThreads ==
    /\ pc = "threads"
    /\ test_string = <<>>
    /\ qsort_tie = 0
    /\ encoded = NULL
    /\ value = 0
    /\ compressed_length = 0
    /\ enc_ret = "none"
    /\ enc = NoCall
    /\ decoded = NULL
    /\ dec = NoCall
    /\ failures = 0
    /\ reencoded = NULL
    /\ reenc = NoCall
    /\ trees = NoCall
    /\ compared = NoCall
    /\ thread \in [Threads ->
          {[pc |-> "start", input |-> input, stack |-> <<>>,
            encoding_table |-> [i \in Symbols |-> NoCode],
            output |-> NULL, alone |-> NULL] : input \in ThreadInputs}]

\* huffman_encode up to the call of create_encoding_table: nothing of it
\* is shared.  `alone` is the container of the same call in a process that
\* runs nothing else.
T_Begin(t) ==
    /\ thread[t].pc = "start"
    /\ \E head_node \in {create_huffman_tree(
              AdjustedFrequencies(
                  FrequencyAnalysis(thread[t].input, Len(thread[t].input))),
              qsort_tie)} :
           thread' = [thread EXCEPT
               ![t].pc = "table",
               ![t].stack = <<Frame(head_node, 0)>>,
               ![t].alone = huffman_encode(thread[t].input, NULL,
                                Len(thread[t].input), 0, 0, qsort_tie).output]
    /\ UNCHANGED <<value, caller_vars>>

\* create_encoding_table at an internal node: value &= ~(0x1 << bits_set),
\* then the call on child[0].
T_ClearBit(t) ==
    /\ InTable(t)
    /\ Top(t).at = "enter"
    /\ HasChild(Top(t).node)
    /\ value' = ClearBit(value, Top(t).bits_set)
    /\ thread' = [thread EXCEPT ![t].stack = Replaced(t,
           <<[Top(t) EXCEPT !.at = "set"],
             Frame(Top(t).node.child[1], Low(Top(t).bits_set + 1, 8))>>)]
    /\ UNCHANGED caller_vars

\* After the return of the call on child[0]: value |= 0x1 << bits_set, then
\* the call on child[1].
T_SetBit(t) ==
    /\ InTable(t)
    /\ Top(t).at = "set"
    /\ value' = SetBit(value, Top(t).bits_set)
    /\ thread' = [thread EXCEPT ![t].stack = Replaced(t,
           <<[Top(t) EXCEPT !.at = "exit"],
             Frame(Top(t).node.child[2], Low(Top(t).bits_set + 1, 8))>>)]
    /\ UNCHANGED caller_vars

\* create_encoding_table at a byte node: the entry is written from `value`
\* as it stands, and the call returns.
T_Leaf(t) ==
    /\ InTable(t)
    /\ Top(t).at = "enter"
    /\ ~HasChild(Top(t).node)
    /\ thread' = [thread EXCEPT
           ![t].encoding_table[Top(t).node.c] =
               [code |-> Low(Low(value, Top(t).bits_set), 16),
                length |-> Top(t).bits_set],
           ![t].stack = Replaced(t, <<>>)]
    /\ UNCHANGED <<value, caller_vars>>

\* The return of a call at an internal node, after the call on child[1].
T_Return(t) ==
    /\ InTable(t)
    /\ Top(t).at = "exit"
    /\ thread' = [thread EXCEPT ![t].stack = Replaced(t, <<>>)]
    /\ UNCHANGED <<value, caller_vars>>

\* The rest of huffman_encode, from the table the thread has written.
T_Finish(t) ==
    /\ thread[t].pc = "table"
    /\ thread[t].stack = <<>>
    /\ thread' = [thread EXCEPT
           ![t].pc = "done",
           ![t].output = EncodeWithTable(thread[t].input, Len(thread[t].input),
                                         thread[t].encoding_table).output]
    /\ UNCHANGED <<value, caller_vars>>

NextThreads ==
    \E t \in Threads :
        \/ T_Begin(t)
        \/ T_ClearBit(t)
        \/ T_SetBit(t)
        \/ T_Leaf(t)
        \/ T_Return(t)
        \/ T_Finish(t)

SpecThreads == InitThreads /\ [][NextThreads]_vars

(* ------------------------------ properties ---------------------------- *)

\* The caller has a container: huffman_encode has returned EXIT_SUCCESS.
HasContainer == pc \in {"decode", "compare", "reencode", "done"}

\* The caller has the decoded bytes.
HasDecoded == pc \in {"compare", "reencode", "done"}

\* The code length huffman_encode gave to byte s.
CodeLength(s) == enc.encoding_table[s].length

\* The bytes that have a code, which are the bytes of the codebook.
CodedSymbols == {s \in Symbols : CodeLength(s) # 0}

\* The first n bytes of *output of huffman_decode.
DecodedBytes(n) == SubSeq(decoded, 1, n)

C2_DepthLimit ==
    HasContainer => \A s \in CodedSymbols : CodeLength(s) \in 1 .. MAX_CODE_LEN

\* C3 as stated: huffman_decode on a container of huffman_encode reads only
\* byte indices below the size of the container.
C3_LookaheadGuard ==
    HasDecoded => dec.peek_max < compressed_length

\* C4 as stated: under any interleaving each of two concurrent
\* huffman_encode calls produces the container it produces when run alone.
C4_ConcurrentIndependence ==
    \A t \in Threads :
        thread[t].pc = "done" => thread[t].output = thread[t].alone

\* C5: huffman_encode on an input of length 0 returns INPUT_ERROR and
\* leaves *output and *compressed_length as they were.
C5_EmptyInput ==
    [][(pc = "encode" /\ test_string = <<>>) =>
           /\ enc_ret' = INPUT_ERROR
           /\ encoded' = encoded
           /\ compressed_length' = compressed_length]_vars

\* huffman_encode has returned from a call on the empty input.
C5_Witness ==
    /\ pc = "failed"
    /\ test_string = <<>>
    /\ enc_ret = INPUT_ERROR
    /\ encoded = NULL

\* C6 as stated: on success huffman_encode returns the size of the
\* container, 6 + ceil((H + P) / 8) + 1.
C6_SizeReturn ==
    HasContainer =>
        enc_ret = HEADER_BASE_SIZE
                  + Shr(enc.header_bit_length + enc.encoded_bit_length + 7, 3) + 1

C8_MalformedSafety ==
    pc = "compare" =>
        /\ dec.ret = EXIT_SUCCESS
        /\ dec.peek_max <= Len(encoded) - 1

\* C9 as stated: the container of a second huffman_encode, on the decoded
\* bytes, has the N and H header fields of the first container.
C9_ReencodeStable ==
    pc = "done" =>
        /\ ReadLittleEndian(reencoded, 0, 4, 0) = ReadLittleEndian(encoded, 0, 4, 0)
        /\ ReadLittleEndian(reencoded, 4, 2, 0) = ReadLittleEndian(encoded, 4, 2, 0)

RECURSIVE Merges(_)
\* The merges that built the tree below `node`, each as the weight and kind
\* (internal or not) of child[0] and of child[1], with their multiplicity.
Merges(node) ==
    IF HasChild(node)
    THEN SetToBag({<<node.child[1].freq, HasChild(node.child[1]),
                     node.child[2].freq, HasChild(node.child[2])>>})
         (+) Merges(node.child[1]) (+) Merges(node.child[2])
    ELSE EmptyBag

RECURSIVE PayloadBits(_, _)
\* The payload bit length P the tree gives: the sum over the byte nodes of
\* weight times depth.
PayloadBits(node, depth) ==
    IF HasChild(node)
    THEN PayloadBits(node.child[1], depth + 1) + PayloadBits(node.child[2], depth + 1)
    ELSE node.freq * depth

\* C10 as stated: for a given frequency table every sort result consistent
\* with node_compare leads to the same tree.
C10_DeterministicTree ==
    pc = "built" => trees.by_rule = trees.in_place

\* C10 amended: node_compare leaves roots of equal weight and equal kind
\* unordered, so the tree depends on the sort; what every sort result
\* consistent with node_compare determines is, at every merge step, the
\* weight and the kind of child[0] and of child[1], and with them the
\* payload bit length P.
C10_DeterministicWeights ==
    pc = "built" =>
        /\ Merges(trees.by_rule) = Merges(trees.in_place)
        /\ PayloadBits(trees.by_rule, 0) = PayloadBits(trees.in_place, 0)

\* Two sort results consistent with node_compare have led to two trees.
C10_Witness ==
    /\ pc = "built"
    /\ trees.by_rule # trees.in_place

\* The symbol next to i that the adjustment names: i - 1, or i + 1 for 0.
Adjacent(i) == IF i > 0 THEN i - 1 ELSE i + 1

\* C11 as stated: for an input of n copies of one byte value i, the table
\* handed to the tree builder differs from the raw tally in the entry of
\* the adjacent symbol only, which is 1; the entry of i is n and every
\* other entry is 0.
C11_SingleSymbolAdjustment ==
    pc = "encoded" =>
        \E i \in {test_string[1]} :
            /\ enc.freq = [s \in Symbols |->
                              IF s = i THEN Len(test_string)
                              ELSE IF s = Adjacent(i) THEN 1 ELSE 0]
            /\ {s \in Symbols : enc.freq[s] # enc.raw[s]} = {Adjacent(i)}

\* C12 as stated: for two roots whose weights differ, anywhere in
\* 0 .. 2^32 - 1, node_compare returns a negative int when the first is the
\* lighter and a positive int when the second is, never 0.
C12_WeightOrdering ==
    (pc = "ranked" /\ compared.first.freq # compared.second.freq) =>
        /\ Lighter(compared.first.freq, compared.second.freq) => compared.ret < 0
        /\ Lighter(compared.second.freq, compared.first.freq) => compared.ret > 0

====
